---- MODULE Spec2Model ----
(***************************************************************************)
(* A model of api_scanner.py: the response classifier (detect_api), the    *)
(* per-target probe (scan_domain_path), the thread-pool scan loop of main  *)
(* and the result store (save_results).                                    *)
(*                                                                         *)
(* Texts are sequences of chunks.  A chunk is a piece of text named by a   *)
(* string; Lower gives its lower-cased form and Within says which needles  *)
(* occur in a (lower- or mixed-case) chunk.  `needle in text` of the       *)
(* source is Contains(needle, text).                                       *)
(***************************************************************************)
EXTENDS Integers, Sequences, FiniteSets, TLC

VARIABLES
    cIn,        \* classifier run: the (body, headers) handed to detect_api
    cOut,       \* classifier run: what detect_api returned, or Pending
    pr,         \* single probe run: the frame of one scan_domain_path call
    plog,       \* single probe run: every scheme attempt and how it ended
    txtFile,    \* data/bugbounty_apis.txt: the sequence of lines
    jsonFile,   \* data/bugbounty_apis.json: Absent or the sequence of tokens
    sv,         \* the frame of the save_results call in progress
    hist,       \* persist run: the file contents before each call, and its args
    threads,    \* main: max_workers
    delay,      \* main: delay
    mpc,        \* main: position of the main thread
    nsub,       \* main: number of targets submitted to the executor so far
    queue,      \* executor: work items not yet taken by a pool thread
    running,    \* executor: the targets pool threads are running (one thread each)
    fut,        \* executor: per target, the future and the frame of its probe
    yielded,    \* main: futures as_completed has handed out
    results,    \* main: results
    completed,  \* main: completed
    hits,       \* main: how many times completed became len(targets)
    doms,       \* main: domains
    pths,       \* main: paths (custom_paths while they are being entered)
    intr,       \* whether a KeyboardInterrupt has been delivered to the main thread
    status,     \* exit status of the process, -1 while it runs
    inp         \* what main will read: the lines typed at its prompts, the target file

vars == <<cIn, cOut, pr, plog, txtFile, jsonFile, sv, hist, threads, delay,
          mpc, nsub, queue, running, fut, yielded, results, completed, hits,
          doms, pths, intr, status, inp>>

clsVars  == <<cIn, cOut>>
prbVars  == <<pr, plog>>
fileVars == <<txtFile, jsonFile, sv>>
scanVars == <<threads, delay, mpc, nsub, queue, running, fut, yielded,
              results, completed, hits>>
procVars == <<doms, pths, intr, status, inp>>
scanVarsButMpc == <<threads, delay, nsub, queue, running, fut, yielded,
                    results, completed, hits>>

-----------------------------------------------------------------------------
(* Bounds *)

MaxBodyLen == 3
NumPaths   == 2
MaxThreads == 2
MaxOuts    == 2
MaxCalls   == 2

-----------------------------------------------------------------------------
(* Text primitives *)

\* str.lower() on one chunk
Lower(c) ==
    CASE c = "Cloudflare"         -> "cloudflare"
      [] c = "Attention Required" -> "attention required"
      [] c = "GraphQL"            -> "graphql"
      [] c = "<?XML"              -> "<?xml"
      [] c = "soap:Envelope"      -> "soap:envelope"
      [] c = "Swagger"            -> "swagger"
      [] c = "Application/JSON; charset=utf-8" -> "application/json; charset=utf-8"
      [] c = "Werkzeug/2.3"       -> "werkzeug/2.3"
      [] c = "Y"                  -> "y"
      [] OTHER                    -> c

\* the needles that occur inside a longer chunk
Within ==
    { <<"{\"",              "{\"result\": \"ok\"}">>,
      <<"\"result\":",      "{\"result\": \"ok\"}">>,
      <<"application/json", "application/json; charset=utf-8">>,
      <<"xml",              "text/xml">>,
      <<"werkzeug",         "werkzeug/2.3">>,
      <<"xml",              "<?xml">> }

\* `needle in chunk` (case-sensitive, as Python's `in`)
InChunk(needle, c) == needle = c \/ <<needle, c>> \in Within

\* `needle in text` (case-sensitive)
Contains(needle, text) == \E i \in 1..Len(text) : InChunk(needle, text[i])

\* text.lower()
LowerText(text) == [i \in 1..Len(text) |-> Lower(text[i])]

\* any(n in text for n in needles)
AnyIn(needles, text) == \E n \in needles : Contains(n, text)

NoLabel == "None"

\* headers.get(name, '') on the case-insensitive header mapping of a response
HeaderGet(headers, name, default) ==
    IF name \in DOMAIN headers THEN headers[name] ELSE default

-----------------------------------------------------------------------------
(* detect_api *)

JsonIndicators == {"{\"", "\"data\":", "\"api\":", "\"response\":", "\"result\":"}
DocIndicators  == {"swagger", "openapi", "api documentation", "api docs", "redoc"}
Frameworks     == {"fastapi", "django rest", "express", "flask-restful"}
ApiServers     == {"fastapi", "werkzeug", "gunicorn"}

\* line 67
IsCloudflareBlock(response_lower) ==
    /\ Contains("cloudflare", response_lower)
    /\ \/ Contains("challenge", response_lower)
       \/ Contains("attention required", response_lower)

\* line 71
JsonContentType(content_type) == Contains("application/json", content_type)

\* line 74
JsonBody(response_lower) == AnyIn(JsonIndicators, response_lower)

\* line 78
IsGraphQL(response_lower) ==
    \/ Contains("graphql", response_lower)
    \/ Contains("\"query\"", response_lower)
    \/ Contains("graphiql", response_lower)

\* line 82: the XML prolog is looked for in the text as received, not lower-cased
IsXml(response_text, response_lower, content_type) ==
    \/ Contains("xml", content_type)
    \/ Contains("<?xml", response_text)
    \/ Contains("soap:envelope", response_lower)

\* line 86
IsDocumentation(response_lower) == AnyIn(DocIndicators, response_lower)

\* line 90
IsFramework(response_lower) == AnyIn(Frameworks, response_lower)

\* line 95
IsApiServer(server) == AnyIn(ApiServers, server)

\* detect_api with the content-type test moved ahead of the Cloudflare test
detect_api_JsonFirst(response_text, headers) ==
    LET response_lower == LowerText(response_text)
        content_type   == LowerText(HeaderGet(headers, "content-type", <<>>))
        server         == LowerText(HeaderGet(headers, "server", <<>>))
    IN  IF JsonContentType(content_type) THEN <<TRUE, "REST/JSON">>
        ELSE IF IsCloudflareBlock(response_lower) THEN <<FALSE, "Cloudflare Block">>
        ELSE IF JsonBody(response_lower) THEN <<TRUE, "REST/JSON">>
        ELSE IF IsGraphQL(response_lower) THEN <<TRUE, "GraphQL">>
        ELSE IF IsXml(response_text, response_lower, content_type)
          THEN <<TRUE, "SOAP/XML">>
        ELSE IF IsDocumentation(response_lower) THEN <<TRUE, "API Documentation">>
        ELSE IF IsFramework(response_lower) THEN <<TRUE, "API Framework">>
        ELSE IF IsApiServer(server) THEN <<TRUE, "API Server">>
        ELSE <<FALSE, NoLabel>>

\* detect_api with the GraphQL test moved behind the documentation test
detect_api_DocFirst(response_text, headers) ==
    LET response_lower == LowerText(response_text)
        content_type   == LowerText(HeaderGet(headers, "content-type", <<>>))
        server         == LowerText(HeaderGet(headers, "server", <<>>))
    IN  IF IsCloudflareBlock(response_lower) THEN <<FALSE, "Cloudflare Block">>
        ELSE IF JsonContentType(content_type) THEN <<TRUE, "REST/JSON">>
        ELSE IF JsonBody(response_lower) THEN <<TRUE, "REST/JSON">>
        ELSE IF IsXml(response_text, response_lower, content_type)
          THEN <<TRUE, "SOAP/XML">>
        ELSE IF IsDocumentation(response_lower) THEN <<TRUE, "API Documentation">>
        ELSE IF IsGraphQL(response_lower) THEN <<TRUE, "GraphQL">>
        ELSE IF IsFramework(response_lower) THEN <<TRUE, "API Framework">>
        ELSE IF IsApiServer(server) THEN <<TRUE, "API Server">>
        ELSE <<FALSE, NoLabel>>

\* detect_api whose server rule returns the verdict without its label
detect_api_ServerNoLabel(response_text, headers) ==
    LET response_lower == LowerText(response_text)
        content_type   == LowerText(HeaderGet(headers, "content-type", <<>>))
        server         == LowerText(HeaderGet(headers, "server", <<>>))
    IN  IF IsCloudflareBlock(response_lower) THEN <<FALSE, "Cloudflare Block">>
        ELSE IF JsonContentType(content_type) THEN <<TRUE, "REST/JSON">>
        ELSE IF JsonBody(response_lower) THEN <<TRUE, "REST/JSON">>
        ELSE IF IsGraphQL(response_lower) THEN <<TRUE, "GraphQL">>
        ELSE IF IsXml(response_text, response_lower, content_type)
          THEN <<TRUE, "SOAP/XML">>
        ELSE IF IsDocumentation(response_lower) THEN <<TRUE, "API Documentation">>
        ELSE IF IsFramework(response_lower) THEN <<TRUE, "API Framework">>
        ELSE IF IsApiServer(server) THEN <<TRUE, NoLabel>>
        ELSE <<FALSE, NoLabel>>

\* lines 61-98; the url parameter is not read
detect_api(response_text, headers) ==
    LET response_lower == LowerText(response_text)
        content_type   == LowerText(HeaderGet(headers, "content-type", <<>>))
        server         == LowerText(HeaderGet(headers, "server", <<>>))
    IN  IF IsCloudflareBlock(response_lower) THEN <<FALSE, "Cloudflare Block">>
        ELSE IF JsonContentType(content_type) THEN <<TRUE, "REST/JSON">>
        ELSE IF JsonBody(response_lower) THEN <<TRUE, "REST/JSON">>
        ELSE IF IsGraphQL(response_lower) THEN <<TRUE, "GraphQL">>
        ELSE IF IsXml(response_text, response_lower, content_type)
          THEN <<TRUE, "SOAP/XML">>
        ELSE IF IsDocumentation(response_lower) THEN <<TRUE, "API Documentation">>
        ELSE IF IsFramework(response_lower) THEN <<TRUE, "API Framework">>
        ELSE IF IsApiServer(server) THEN <<TRUE, "API Server">>
        ELSE <<FALSE, NoLabel>>

-----------------------------------------------------------------------------
(* Classifier run: detect_api applied to one response *)

BodyChunks ==
    { "Cloudflare", "challenge", "Attention Required", "{\"result\": \"ok\"}",
      "\"query\"", "graphiql", "<?XML", "<?xml", "Swagger", "express", "hello" }

Bodies == UNION { [1..n -> BodyChunks] : n \in 0..MaxBodyLen }

ContentTypes ==
    { <<"Application/JSON; charset=utf-8">>, <<"text/xml">>, <<"text/html">> }

ServerValues == { <<"Werkzeug/2.3">>, <<"nginx">> }

\* every response carries a Date header; Content-Type and Server may be absent
Hdr(names, ct, srv) ==
    [x \in {"date"} \cup names |->
        IF x = "content-type" THEN ct ELSE IF x = "server" THEN srv ELSE <<"now">>]

HeaderSets ==
    { Hdr({}, <<>>, <<>>) }
      \cup { Hdr({"content-type"}, ct, <<>>) : ct \in ContentTypes }
      \cup { Hdr({"server"}, <<>>, srv) : srv \in ServerValues }
      \cup { Hdr({"content-type", "server"}, ct, srv) :
             ct \in ContentTypes, srv \in ServerValues }

Pending == <<FALSE, "pending">>

InitIdleClassifier ==
    /\ cIn = [body |-> <<>>, headers |-> Hdr({}, <<>>, <<>>)]
    /\ cOut = Pending

\* a caller hands one response to detect_api and keeps what it returns
Classify ==
    /\ cOut = Pending
    /\ cOut' = detect_api(cIn.body, cIn.headers)
    /\ UNCHANGED <<cIn, prbVars, fileVars, hist, scanVars, procVars>>

-----------------------------------------------------------------------------
(* scan_domain_path *)

Schemes == <<"https", "http">>

None == [py |-> "None"]

\* f"{scheme}://{domain}{path}"
Url(scheme, domain, path) == <<scheme, "://", domain, path>>

ExcKinds == {"SSLError", "Timeout", "ConnectionError", "Exception"}

\* the except clauses without the final `except Exception`
OnException_NoCatchAll(kind) ==
    CASE kind = "SSLError"        -> "continue"
      [] kind = "Timeout"         -> "continue"
      [] kind = "ConnectionError" -> "continue"
      [] OTHER                    -> "raise"

\* the except clauses of the try around one scheme attempt
OnException(kind) ==
    CASE kind = "SSLError"        -> "continue"
      [] kind = "Timeout"         -> "continue"
      [] kind = "ConnectionError" -> "continue"
      [] OTHER                    -> "continue"

\* the result dict as built before the request
NewResult(domain, path, scheme) ==
    [ url       |-> Url(scheme, domain, path),
      domain    |-> domain,
      path      |-> path,
      scheme    |-> scheme,
      is_api    |-> FALSE,
      api_type  |-> NoLabel,
      timestamp |-> "now" ]

\* the result dict as filled in and returned on a positive classification
PositiveResult(domain, path, scheme, api_type, response) ==
    LET result == NewResult(domain, path, scheme)
    IN  [ url         |-> result.url,
          domain      |-> result.domain,
          path        |-> result.path,
          scheme      |-> result.scheme,
          is_api      |-> TRUE,
          api_type    |-> api_type,
          timestamp   |-> result.timestamp,
          status_code |-> response.status_code,
          server      |-> HeaderGet(response.headers, "server", <<"Unknown">>),
          cloudflare  |-> "cf-ray" \in DOMAIN response.headers ]

\* loop iteration i up to the blocking requests.get: the URL is built and requested
IssueRequest(f, i) ==
    [f EXCEPT !.pc = "wait", !.si = i,
              !.reqs = Append(@, Url(Schemes[i], f.domain, f.path))]

\* `continue`, or falling off the end of the loop body: next scheme or return None
NextScheme(f) ==
    IF f.si < Len(Schemes)
      THEN IssueRequest(f, f.si + 1)
      ELSE [f EXCEPT !.pc = "returned", !.ret = None]

\* entry of scan_domain_path without lines 110-111
ProbeCall_NoSleep(domain, path, dly) ==
    IssueRequest([ domain |-> domain, path |-> path, dly |-> dly, pc |-> "sleep",
                   si |-> 0, slept |-> 0, reqs |-> <<>>, log |-> <<>>, ret |-> None ], 1)

\* entry of scan_domain_path up to its first blocking point
ProbeCall(domain, path, dly) ==
    LET f == [ domain |-> domain, path |-> path, dly |-> dly, pc |-> "sleep",
               si |-> 0, slept |-> 0, reqs |-> <<>>, log |-> <<>>, ret |-> None ]
    IN  IF dly > 0 THEN f ELSE IssueRequest(f, 1)

\* time.sleep(delay) returns
ProbeWake(f) == IssueRequest([f EXCEPT !.slept = @ + 1], 1)

\* requests.get raises
ProbeException(f, kind) ==
    LET g == [f EXCEPT !.log = Append(@, "exc")]
    IN  IF OnException(kind) = "continue"
          THEN NextScheme(g)
          ELSE [g EXCEPT !.pc = "raised"]

\* requests.get returns a response; `return result` left out of the positive branch
ProbeResponse_NoReturn(f, response) ==
    LET verdict == detect_api(response.text, response.headers)
    IN  IF verdict[1]
          THEN LET g == NextScheme([f EXCEPT !.log = Append(@, "pos")])
               IN  [g EXCEPT !.ret = PositiveResult(f.domain, f.path, Schemes[f.si],
                                                    verdict[2], response)]
          ELSE NextScheme([f EXCEPT !.log = Append(@, "neg")])

\* requests.get returns a response; `return result` moved out of `if is_api`
ProbeResponse_ReturnAlways(f, response) ==
    LET verdict == detect_api(response.text, response.headers)
    IN  IF verdict[1]
          THEN [f EXCEPT !.pc = "returned", !.log = Append(@, "pos"),
                         !.ret = PositiveResult(f.domain, f.path, Schemes[f.si],
                                                verdict[2], response)]
          ELSE [f EXCEPT !.pc = "returned", !.log = Append(@, "neg"),
                         !.ret = NewResult(f.domain, f.path, Schemes[f.si])]

\* requests.get returns a response (lines 136-148); the console line printed on a
\* find is output only and is taken to succeed
ProbeResponse(f, response) ==
    LET verdict == detect_api(response.text, response.headers)
    IN  IF verdict[1]
          THEN [f EXCEPT !.pc = "returned", !.log = Append(@, "pos"),
                         !.ret = PositiveResult(f.domain, f.path, Schemes[f.si],
                                                verdict[2], response)]
          ELSE NextScheme([f EXCEPT !.log = Append(@, "neg")])

-----------------------------------------------------------------------------
(* Targets and responses of the environment *)

\* host names and paths are texts: sequences of chunks
Hosts == << <<"api.example.com">>, <<"example.org">> >>

\* the head of the catalogue of generate_api_paths
Paths == << <<"/">>, <<"/", "api">>, <<"/", "api", "/", "v1">> >>

Delays == {0, 1}

RespHdr(names, ct, srv) ==
    [x \in {"date"} \cup names |->
        IF x = "content-type" THEN ct
        ELSE IF x = "server" THEN srv
        ELSE IF x = "cf-ray" THEN <<"8a1b-AMS">>
        ELSE <<"now">>]

RespJson ==
    [ text        |-> << "{\"result\": \"ok\"}" >>,
      headers     |-> RespHdr({"content-type", "cf-ray"},
                              <<"application/json; charset=utf-8">>, <<>>),
      status_code |-> "200" ]

RespBlock ==
    [ text        |-> << "Attention Required", "Cloudflare" >>,
      headers     |-> RespHdr({"content-type", "cf-ray"}, <<"text/html">>, <<>>),
      status_code |-> "403" ]

RespHtml ==
    [ text        |-> << "hello" >>,
      headers     |-> RespHdr({"content-type", "server"}, <<"text/html">>, <<"nginx">>),
      status_code |-> "200" ]

RespGraphiql ==
    [ text        |-> << "graphiql", "\"query\"" >>,
      headers     |-> RespHdr({"content-type"}, <<"text/html">>, <<>>),
      status_code |-> "200" ]

RespWerkzeug ==
    [ text        |-> << "hello" >>,
      headers     |-> RespHdr({"server"}, <<>>, <<"Werkzeug/2.3">>),
      status_code |-> "404" ]

ProbeResponses == { RespJson, RespBlock, RespHtml, RespGraphiql, RespWerkzeug }

-----------------------------------------------------------------------------
(* Single probe run: one call of scan_domain_path and its attempts *)

InitIdleProbe ==
    /\ pr = ProbeCall(Hosts[1], Paths[1], 0)
    /\ plog = <<>>

PWake ==
    /\ pr.pc = "sleep"
    /\ pr' = ProbeWake(pr)
    /\ UNCHANGED <<plog, clsVars, fileVars, hist, scanVars, procVars>>

PException ==
    /\ pr.pc = "wait"
    /\ \E kind \in ExcKinds :
         /\ pr' = ProbeException(pr, kind)
         /\ plog' = Append(plog, [scheme |-> Schemes[pr.si], exc |-> kind])
    /\ UNCHANGED <<clsVars, fileVars, hist, scanVars, procVars>>

PResponse ==
    /\ pr.pc = "wait"
    /\ \E response \in ProbeResponses :
         /\ pr' = ProbeResponse(pr, response)
         /\ plog' = Append(plog, [scheme |-> Schemes[pr.si], response |-> response])
    /\ UNCHANGED <<clsVars, fileVars, hist, scanVars, procVars>>

-----------------------------------------------------------------------------
(* JSON text of the structured file: a sequence of tokens.  A dict is one   *)
(* token (the record itself); brackets and commas are the tokens below.    *)

LB    == [tok |-> "["]
RB    == [tok |-> "]"]
Comma == [tok |-> ","]

IsTok(x) == "tok" \in DOMAIN x

RECURSIVE JoinItems(_)
JoinItems(items) ==
    IF Len(items) = 0 THEN <<>>
    ELSE IF Len(items) = 1 THEN <<items[1]>>
    ELSE <<items[1], Comma>> \o JoinItems(Tail(items))

\* json.dump(existing, f, indent=2)
JsonDump(items) == <<LB>> \o JoinItems(items) \o <<RB>>

\* json.load(f): ok is FALSE when it raises; islist tells a list from any other value
JsonLoad(text) ==
    LET n     == Len(text)
        inner == SubSeq(text, 2, n - 1)
        m     == Len(inner)
        items == [i \in 1..((m + 1) \div 2) |-> inner[2 * i - 1]]
        wellFormedList ==
            /\ n >= 2 /\ text[1] = LB /\ text[n] = RB
            /\ m = 0 \/ m % 2 = 1
            /\ \A i \in 1..m : IF i % 2 = 1 THEN ~IsTok(inner[i])
                                            ELSE inner[i] = Comma
    IN  IF wellFormedList
          THEN [ok |-> TRUE, islist |-> TRUE, items |-> items]
        ELSE IF n = 1 /\ ~IsTok(text[1])
          THEN [ok |-> TRUE, islist |-> FALSE, items |-> <<>>]
        ELSE [ok |-> FALSE, islist |-> FALSE, items |-> <<>>]

-----------------------------------------------------------------------------
(* save_results *)

\* dict.get(key, default)
Get(d, key, default) == IF key \in DOMAIN d THEN d[key] ELSE default

\* `if result`, with the is_api test left out
IsApiResult_AnyDict(result) == result # None

\* `result and result.get('is_api')`
IsApiResult(result) ==
    /\ result # None
    /\ Get(result, "is_api", FALSE) = TRUE

RECURSIVE SelectApi(_)
\* [r for r in results if r and r.get('is_api')]
SelectApi(rs) ==
    IF Len(rs) = 0 THEN <<>>
    ELSE IF IsApiResult(Head(rs)) THEN <<Head(rs)>> \o SelectApi(Tail(rs))
    ELSE SelectApi(Tail(rs))

\* f"{result['url']} | {result['api_type']} | Status: {status}{cf}\n"
TextLine(result) ==
    [ url      |-> result.url,
      api_type |-> result.api_type,
      status   |-> Get(result, "status_code", "N/A"),
      cf       |-> IF Get(result, "cloudflare", FALSE) = TRUE
                     THEN " (Cloudflare)" ELSE "" ]

RECURSIVE TextLines(_)
\* the lines the first with-block writes, in order
TextLines(rs) ==
    IF Len(rs) = 0 THEN <<>>
    ELSE IF IsApiResult(Head(rs)) THEN <<TextLine(Head(rs))>> \o TextLines(Tail(rs))
    ELSE TextLines(Tail(rs))

\* lines 224-229 without the try/except around json.load
LoadExisting_NoExcept(file) ==
    IF file.exists
      THEN LET r == JsonLoad(file.text)
           IN  [raised |-> ~r.ok, islist |-> r.islist, items |-> r.items]
      ELSE [raised |-> FALSE, islist |-> TRUE, items |-> <<>>]

\* lines 224-231: what `existing` is bound to before the extend; the bare
\* except turns every failure of json.load into the empty list
LoadExisting(file) ==
    IF file.exists
      THEN LET r == JsonLoad(file.text)
           IN  IF r.ok THEN [raised |-> FALSE, islist |-> r.islist, items |-> r.items]
                       ELSE [raised |-> FALSE, islist |-> TRUE, items |-> <<>>]
      ELSE [raised |-> FALSE, islist |-> TRUE, items |-> <<>>]

RECURSIVE Missing(_, _)
\* the API results of rs that are not yet among seen, each once
Missing(rs, seen) ==
    IF Len(rs) = 0 THEN <<>>
    ELSE IF IsApiResult(Head(rs)) /\ \A i \in 1..Len(seen) : seen[i] # Head(rs)
      THEN <<Head(rs)>> \o Missing(Tail(rs), Append(seen, Head(rs)))
    ELSE Missing(Tail(rs), seen)

\* the merge as a set union: results already in the file are not added again
Extend_Dedup(existing, rs) ==
    IF existing.islist
      THEN [raised |-> FALSE, items |-> existing.items \o Missing(rs, existing.items)]
      ELSE [raised |-> TRUE, items |-> <<>>]

\* existing.extend(...): a value that is no list has no extend
Extend(existing, rs) ==
    IF existing.islist
      THEN [raised |-> FALSE, items |-> existing.items \o SelectApi(rs)]
      ELSE [raised |-> TRUE, items |-> <<>>]

IdleSave == [pc |-> "idle", results |-> <<>>, existing |-> <<>>]

\* save_results(results) is entered: os.makedirs('data', exist_ok=True)
SaveEnter(rs) ==
    /\ sv' = [pc |-> "text", results |-> rs, existing |-> <<>>]
    /\ hist' = Append(hist, [txt |-> txtFile, json |-> jsonFile, args |-> rs])
    /\ UNCHANGED <<txtFile, jsonFile>>

\* with open(output_file, 'a'): one line per API result
SaveText ==
    /\ sv.pc = "text"
    /\ txtFile' = txtFile \o TextLines(sv.results)
    /\ sv' = [sv EXCEPT !.pc = "load"]
    /\ UNCHANGED <<jsonFile, hist, clsVars, prbVars, scanVars, procVars>>

\* the existing JSON file is read and the new API results are merged in
SaveLoad ==
    /\ sv.pc = "load"
    /\ LET loaded == LoadExisting(jsonFile)
           merged == Extend(loaded, sv.results)
       IN  sv' = IF loaded.raised \/ merged.raised
                   THEN [sv EXCEPT !.pc = "raised"]
                   ELSE [sv EXCEPT !.pc = "open", !.existing = merged.items]
    /\ UNCHANGED <<txtFile, jsonFile, hist, clsVars, prbVars, scanVars, procVars>>

\* open(json_file, 'w') creates the file or truncates it to zero bytes
SaveOpen ==
    /\ sv.pc = "open"
    /\ jsonFile' = [exists |-> TRUE, text |-> <<>>]
    /\ sv' = [sv EXCEPT !.pc = "write"]
    /\ UNCHANGED <<txtFile, hist, clsVars, prbVars, scanVars, procVars>>

\* json.dump(existing, f, indent=2) and the close of the file
SaveWrite ==
    /\ sv.pc = "write"
    /\ jsonFile' = [exists |-> TRUE, text |-> JsonDump(sv.existing)]
    /\ sv' = [sv EXCEPT !.pc = "returned"]
    /\ UNCHANGED <<txtFile, hist, clsVars, prbVars, scanVars, procVars>>

-----------------------------------------------------------------------------
(* Persist run: save_results called on files left by earlier runs *)

OldEntry ==
    [ url |-> Url("https", <<"old.example.net">>, <<"/", "v1">>),
      domain |-> <<"old.example.net">>, path |-> <<"/", "v1">>, scheme |-> "https", is_api |-> TRUE, api_type |-> "GraphQL",
      timestamp |-> "then", status_code |-> "200", server |-> <<"Unknown">>,
      cloudflare |-> FALSE ]

OutJson == PositiveResult(Hosts[1], Paths[1], "https", "REST/JSON", RespJson)

\* a dict flagged is_api that carries neither status_code nor cloudflare
OutBare ==
    [ url |-> Url("http", Hosts[2], Paths[2]), domain |-> Hosts[2], path |-> Paths[2],
      scheme |-> "http", is_api |-> TRUE, api_type |-> "API Server",
      timestamp |-> "now" ]

\* the dict scan_domain_path builds before the request, never filled in
OutNegative ==
    [ url |-> Url("https", Hosts[2], Paths[1]), domain |-> Hosts[2], path |-> Paths[1],
      scheme |-> "https", is_api |-> FALSE, api_type |-> NoLabel,
      timestamp |-> "now" ]

OutcomePool == { None, OutNegative, OutJson, OutBare }

OutcomeSeqs == UNION { [1..n -> OutcomePool] : n \in 0..MaxOuts }

NoFile == [exists |-> FALSE, text |-> <<>>]

JsonFiles ==
    { NoFile,
      [exists |-> TRUE, text |-> <<>>],                       \* zero bytes
      [exists |-> TRUE, text |-> JsonDump(<<>>)],
      [exists |-> TRUE, text |-> JsonDump(<<OldEntry>>)],
      [exists |-> TRUE, text |-> JsonDump(<<OldEntry, OutJson>>)],
      [exists |-> TRUE, text |-> <<LB, OldEntry, Comma>>],    \* cut short
      [exists |-> TRUE, text |-> <<OldEntry>>] }              \* a dict, not a list

TxtFiles == { <<>>, <<TextLine(OldEntry)>> }

InitIdleFiles ==
    /\ txtFile = <<>>
    /\ jsonFile = NoFile
    /\ sv = IdleSave
    /\ hist = <<>>

\* a run calls save_results with some sequence of outcomes
PersistCall ==
    /\ sv.pc = "idle"
    /\ \E rs \in OutcomeSeqs : SaveEnter(rs)
    /\ UNCHANGED <<clsVars, prbVars, scanVars, procVars>>

\* a later run calls save_results with the same outcomes again
PersistRepeat ==
    /\ sv.pc = "returned"
    /\ Len(hist) < MaxCalls
    /\ SaveEnter(hist[Len(hist)].args)
    /\ UNCHANGED <<clsVars, prbVars, scanVars, procVars>>

-----------------------------------------------------------------------------
(* main: the scan over the thread pool, then save_results *)

domains == doms
paths   == pths

\* generate_api_paths()
DefaultPaths == SubSeq(Paths, 1, NumPaths)

\* targets = [(domain, path) for domain in domains for path in paths]
targets ==
    [t \in 1..(Len(domains) * Len(paths)) |->
        <<domains[((t - 1) \div Len(paths)) + 1], paths[((t - 1) % Len(paths)) + 1]>>]

\* len(targets)
N == Len(domains) * Len(paths)

ScanResponses == { RespJson, RespBlock }

\* no file of targets
NoTargetFile == [exists |-> FALSE, lines |-> <<>>]

\* nothing typed, nothing to read
IdleInput == [tty |-> <<>>, file |-> NoTargetFile]

NotSubmitted == [state |-> "none", starts |-> 0, frame |-> ProbeCall(<<>>, <<>>, 1)]

\* completed += 1, indented into `if result:`
CountCompleted_OnlyHits(c, result) == IF result # None THEN c + 1 ELSE c

\* completed += 1
CountCompleted(c, result) == c + 1

\* results.append(result) without the test of `if result:`
Collected_Always(rs, result) == Append(rs, result)

\* if result: results.append(result)
Collected(rs, result) == IF result # None THEN Append(rs, result) ELSE rs

InitIdleScan ==
    /\ threads = 1
    /\ delay = 0
    /\ mpc = "off"
    /\ nsub = 0
    /\ queue = <<>>
    /\ running = {}
    /\ yielded = {}
    /\ results = <<>>
    /\ completed = 0
    /\ hits = 0
    /\ doms = Hosts
    /\ pths = DefaultPaths
    /\ intr = FALSE
    /\ status = -1
    /\ inp = IdleInput
    /\ fut = [t \in 1..N |-> NotSubmitted]

\* main at line 301, the input read: the domains ds, the paths ps
InitScanOf(ds, ps) ==
    /\ threads \in 1..MaxThreads
    /\ delay \in Delays
    /\ mpc = "submit"
    /\ nsub = 0
    /\ queue = <<>>
    /\ running = {}
    /\ yielded = {}
    /\ results = <<>>
    /\ completed = 0
    /\ hits = 0
    /\ doms = ds
    /\ pths = ps
    /\ intr = FALSE
    /\ status = -1
    /\ inp = IdleInput
    /\ fut = [t \in 1..N |-> NotSubmitted]

\* one domain was entered, and no custom paths
InitScan == InitScanOf(<<Hosts[1]>>, DefaultPaths)

\* a pool that starts a thread for every work item
PoolHasIdleThread_Unbounded(busy, max_workers) == TRUE

\* ThreadPoolExecutor(max_workers=threads): at most max_workers pool threads
PoolHasIdleThread(busy, max_workers) == Cardinality(busy) < max_workers

\* the loop left as soon as one future was yielded
LoopDone_First(seen) == seen # {}

\* as_completed(future_to_target) is exhausted: every future was yielded
LoopDone(seen) == seen = 1..N

\* executor.submit(scan_domain_path, domain, path, 10, delay) for the next target
Submit ==
    /\ mpc = "submit"
    /\ nsub < N
    /\ nsub' = nsub + 1
    /\ queue' = Append(queue, nsub + 1)
    /\ fut' = [fut EXCEPT ![nsub + 1].state = "pending"]
    /\ mpc' = IF nsub + 1 = N THEN "collect" ELSE "submit"
    /\ UNCHANGED <<threads, delay, running, yielded, results, completed, hits,
                   clsVars, prbVars, fileVars, hist, procVars>>

\* an idle pool thread takes the next work item and enters scan_domain_path
Take ==
    /\ PoolHasIdleThread(running, threads)
    /\ queue # <<>>
    /\ LET t == Head(queue)
       IN  /\ running' = running \cup {t}
           /\ fut' = [fut EXCEPT ![t] =
                        [state |-> "running", starts |-> @.starts + 1,
                         frame |-> ProbeCall(targets[t][1], targets[t][2], delay)]]
    /\ queue' = Tail(queue)
    /\ UNCHANGED <<threads, delay, mpc, nsub, yielded, results, completed, hits,
                   clsVars, prbVars, fileVars, hist, procVars>>

\* a pool thread that never becomes idle again after its work item ended
Advance_HoldsThread(t, f) ==
    /\ fut' = [fut EXCEPT ![t].frame = f,
                          ![t].state = IF f.pc \in {"returned", "raised"}
                                         THEN "finished" ELSE "running"]
    /\ UNCHANGED <<threads, delay, mpc, nsub, queue, running, yielded, results,
                   completed, hits, clsVars, prbVars, fileVars, hist, procVars>>

\* the frame of target t moves on; when it ended the future is set and the thread is idle
Advance(t, f) ==
    /\ fut' = [fut EXCEPT ![t].frame = f,
                          ![t].state = IF f.pc \in {"returned", "raised"}
                                         THEN "finished" ELSE "running"]
    /\ running' = IF f.pc \in {"returned", "raised"} THEN running \ {t} ELSE running
    /\ UNCHANGED <<threads, delay, mpc, nsub, queue, yielded, results,
                   completed, hits, clsVars, prbVars, fileVars, hist, procVars>>

Wake(t) ==
    /\ fut[t].frame.pc = "sleep"
    /\ Advance(t, ProbeWake(fut[t].frame))

RecvException(t) ==
    /\ fut[t].frame.pc = "wait"
    /\ \E kind \in ExcKinds : Advance(t, ProbeException(fut[t].frame, kind))

RecvResponse(t) ==
    /\ fut[t].frame.pc = "wait"
    /\ \E response \in ScanResponses : Advance(t, ProbeResponse(fut[t].frame, response))

\* one iteration of `for future in as_completed(future_to_target)`
Collect ==
    /\ mpc = "collect"
    /\ \E t \in 1..N :
         /\ fut[t].state = "finished"
         /\ t \notin yielded
         /\ yielded' = yielded \cup {t}
         /\ IF fut[t].frame.pc = "raised"
              THEN /\ mpc' = "crashed"       \* future.result() re-raises
                   /\ status' = 1
                   /\ UNCHANGED <<results, completed, hits>>
              ELSE /\ results' = Collected(results, fut[t].frame.ret)
                   /\ completed' = CountCompleted(completed, fut[t].frame.ret)
                   /\ hits' = IF completed' = N THEN hits + 1 ELSE hits
                   /\ mpc' = IF LoopDone(yielded') THEN "save" ELSE "collect"
                   /\ UNCHANGED status
    /\ UNCHANGED <<threads, delay, nsub, queue, running, fut,
                   clsVars, prbVars, fileVars, hist, doms, pths, intr, inp>>

\* if results: save_results(results)
MainSave ==
    /\ mpc = "save"
    /\ IF results # <<>>
         THEN /\ SaveEnter(results)
              /\ mpc' = "saving"
         ELSE /\ mpc' = "summary"
              /\ UNCHANGED <<fileVars, hist>>
    /\ UNCHANGED <<threads, delay, nsub, queue, running, fut, yielded, results,
                   completed, hits, clsVars, prbVars, procVars>>

\* save_results returns into main, which prints the summary, or raises out of it
MainSaved ==
    /\ mpc = "saving"
    /\ sv.pc \in {"returned", "raised"}
    /\ mpc' = IF sv.pc = "returned" THEN "summary" ELSE "crashed"
    /\ status' = IF sv.pc = "returned" THEN status ELSE 1
    /\ UNCHANGED <<threads, delay, nsub, queue, running, fut, yielded, results,
                   completed, hits, clsVars, prbVars, fileVars, hist, doms, pths, intr, inp>>

\* main returns after the summary: the interpreter exits with status 0
MainReturn ==
    /\ mpc = "summary"
    /\ mpc' = "exited"
    /\ status' = 0
    /\ UNCHANGED <<threads, delay, nsub, queue, running, fut, yielded, results,
                   completed, hits, clsVars, prbVars, fileVars, hist, doms, pths, intr, inp>>

-----------------------------------------------------------------------------
(* main: the input it reads before the scan *)

RECURSIVE LStrip(_), RStrip(_), Remove(_, _), BeforeSlash(_), LoadLines(_)

LStrip(text) ==
    IF text # <<>> /\ Head(text) = " " THEN LStrip(Tail(text)) ELSE text

RStrip(text) ==
    IF text # <<>> /\ text[Len(text)] = " "
      THEN RStrip(SubSeq(text, 1, Len(text) - 1)) ELSE text

\* str.strip()
Strip(text) == RStrip(LStrip(text))

\* str.startswith(prefix)
StartsWith(text, prefix) ==
    Len(text) >= Len(prefix) /\ SubSeq(text, 1, Len(prefix)) = prefix

\* str.replace(old, '')
Remove(text, old) ==
    IF text = <<>> THEN <<>>
    ELSE IF StartsWith(text, old)
      THEN Remove(SubSeq(text, Len(old) + 1, Len(text)), old)
    ELSE <<Head(text)>> \o Remove(Tail(text), old)

\* str.split('/')[0]
BeforeSlash(text) ==
    IF text = <<>> \/ Head(text) = "/" THEN <<>>
    ELSE <<Head(text)>> \o BeforeSlash(Tail(text))

HttpPrefix  == <<"http:", "/", "/">>
HttpsPrefix == <<"https:", "/", "/">>

\* line 267: domain.replace('http://', '').replace('https://', '').split('/')[0]
CleanDomain(domain) == BeforeSlash(Remove(Remove(domain, HttpPrefix), HttpsPrefix))

\* line 204: what the file route keeps of a line
LoadedDomain(line) == Strip(line)

\* line 204: the list comprehension over the lines of the file
LoadLines(lines) ==
    IF lines = <<>> THEN <<>>
    ELSE IF Strip(Head(lines)) # <<>> /\ ~StartsWith(Head(lines), <<"#">>)
      THEN <<LoadedDomain(Head(lines))>> \o LoadLines(Tail(lines))
    ELSE LoadLines(Tail(lines))

\* load_targets_from_file(filename): FileNotFoundError gives the empty list
load_targets_from_file(file) == IF file.exists THEN LoadLines(file.lines) ELSE <<>>

\* lines 289-290: if not path.startswith('/'): path = '/' + path
SlashPrefixed(path) == IF StartsWith(path, <<"/">>) THEN path ELSE <<"/">> \o path

\* a scan started whatever the list of domains holds
NoDomains_Never(ds) == FALSE

\* `if not domains:` at lines 256 and 270
NoDomains(ds) == ds = <<>>

Digit == <<"0", "1", "2", "3", "4", "5", "6", "7", "8", "9">>

\* int(text), float(text) of a one-digit number
IntOf(text) == (CHOOSE i \in 1..Len(Digit) : Digit[i] = text[1]) - 1

\* int(input(...) or "5")
ThreadsOf(line) == IF line = <<>> THEN IntOf(<<"5">>) ELSE IntOf(line)

\* float(input(...) or "1")
DelayOf(line) == IF line = <<>> THEN IntOf(<<"1">>) ELSE IntOf(line)

\* what the user types

BareLine == <<" ", "api.example.com", " ">>
UrlLine  == <<"https:", "/", "/", "example.org", "/", "v1">>

\* the lines typed at the domain prompt, up to the empty line that ends them
DomainEntries ==
    { << <<>> >>,
      << BareLine, <<>> >>,
      << UrlLine, <<" ">> >>,
      << HttpsPrefix, <<>> >> }

TargetFiles ==
    { NoTargetFile,
      [exists |-> TRUE, lines |-> << <<"#", "staging">>, <<" ">> >>],
      [exists |-> TRUE, lines |-> << <<"#", "staging">>, BareLine >>],
      [exists |-> TRUE, lines |-> << UrlLine >>] }

ThreadEntries == { <<Digit[k + 1]>> : k \in 1..MaxThreads }

DelayEntries == { <<"0">>, <<>> }

\* the answer to "Use custom paths?" and the paths typed after a yes
PathEntries ==
    { << <<"n">> >>,
      << <<" ", "Y">>, <<>> >>,
      << <<"y">>, <<"/", "graphql">>, <<" ", "api">>, <<>> >> }

\* everything typed in one run, by route
TypedManual ==
    { << <<"1">> >> \o d \o <<th, dl>> \o p :
        d \in DomainEntries, th \in ThreadEntries, dl \in DelayEntries, p \in PathEntries }

TypedFile ==
    { << <<"2">>, <<>>, th, dl >> \o p :
        th \in ThreadEntries, dl \in DelayEntries, p \in PathEntries }

\* a run of manual entry beside no target file, or a run of the file route
Inputs ==
    [tty : TypedManual, file : {NoTargetFile}] \cup [tty : TypedFile, file : TargetFiles]

\* the line input() returns next, and what is left to read
NextLine == Head(inp.tty)
Consumed == [inp EXCEPT !.tty = Tail(@)]

AtPrompt == { "choice", "file", "domain", "threads", "delay", "custom", "path" }

InitInput ==
    /\ threads = 1
    /\ delay = 0
    /\ mpc = "choice"
    /\ nsub = 0
    /\ queue = <<>>
    /\ running = {}
    /\ yielded = {}
    /\ results = <<>>
    /\ completed = 0
    /\ hits = 0
    /\ doms = <<>>
    /\ pths = <<>>
    /\ intr = FALSE
    /\ status = -1
    /\ inp \in Inputs
    /\ fut = <<>>

\* line 249: choice = input(...).strip()
ReadChoice ==
    /\ mpc = "choice"
    /\ mpc' = IF Strip(NextLine) = <<"2">> THEN "file" ELSE "domain"
    /\ inp' = Consumed
    /\ UNCHANGED <<scanVarsButMpc, doms, pths, intr, status, clsVars, prbVars, fileVars, hist>>

\* lines 254-258: the file route
ReadFile ==
    /\ mpc = "file"
    /\ LET loaded == load_targets_from_file(inp.file)
       IN  /\ doms' = loaded
           /\ IF NoDomains(loaded)
                THEN mpc' = "nodomains" /\ status' = 1       \* sys.exit(1)
                ELSE mpc' = "threads" /\ UNCHANGED status
    /\ inp' = Consumed
    /\ UNCHANGED <<scanVarsButMpc, pths, intr, clsVars, prbVars, fileVars, hist>>

\* lines 262-272: one turn of the manual entry loop
ReadDomain ==
    /\ mpc = "domain"
    /\ LET domain == Strip(NextLine)
       IN  IF domain # <<>>
             THEN /\ doms' = Append(doms, CleanDomain(domain))
                  /\ UNCHANGED <<mpc, status>>
             ELSE /\ UNCHANGED doms
                  /\ IF NoDomains(doms)
                       THEN mpc' = "nodomains" /\ status' = 1    \* sys.exit(1)
                       ELSE mpc' = "threads" /\ UNCHANGED status
    /\ inp' = Consumed
    /\ UNCHANGED <<scanVarsButMpc, pths, intr, clsVars, prbVars, fileVars, hist>>

\* line 276
ReadThreads ==
    /\ mpc = "threads"
    /\ threads' = ThreadsOf(NextLine)
    /\ mpc' = "delay"
    /\ inp' = Consumed
    /\ UNCHANGED <<delay, nsub, queue, running, fut, yielded, results, completed, hits,
                   doms, pths, intr, status, clsVars, prbVars, fileVars, hist>>

\* line 277
ReadDelay ==
    /\ mpc = "delay"
    /\ delay' = DelayOf(NextLine)
    /\ mpc' = "custom"
    /\ inp' = Consumed
    /\ UNCHANGED <<threads, nsub, queue, running, fut, yielded, results, completed, hits,
                   doms, pths, intr, status, clsVars, prbVars, fileVars, hist>>

\* lines 301-315: the input is read; the futures of the targets to come
Begin(ps) ==
    /\ pths' = ps
    /\ mpc' = "submit"
    /\ fut' = [t \in 1..(Len(doms) * Len(ps)) |-> NotSubmitted]

\* lines 280-281, 293-294
ReadCustom ==
    /\ mpc = "custom"
    /\ IF LowerText(Strip(NextLine)) = <<"y">>
         THEN mpc' = "path" /\ UNCHANGED <<pths, fut>>
         ELSE Begin(DefaultPaths)
    /\ inp' = Consumed
    /\ UNCHANGED <<threads, delay, nsub, queue, running, yielded, results, completed, hits,
                   doms, intr, status, clsVars, prbVars, fileVars, hist>>

\* lines 285-292: one turn of the custom path loop
ReadPath ==
    /\ mpc = "path"
    /\ LET path == Strip(NextLine)
       IN  IF path # <<>>
             THEN /\ pths' = Append(pths, SlashPrefixed(path))
                  /\ UNCHANGED <<mpc, fut>>
             ELSE Begin(IF pths # <<>> THEN pths ELSE DefaultPaths)
    /\ inp' = Consumed
    /\ UNCHANGED <<threads, delay, nsub, queue, running, yielded, results, completed, hits,
                   doms, intr, status, clsVars, prbVars, fileVars, hist>>

-----------------------------------------------------------------------------
(* KeyboardInterrupt in the main thread *)

\* lines 296-298: at a prompt
InterruptInput ==
    /\ mpc \in AtPrompt
    /\ intr' = TRUE
    /\ mpc' = "cancelled"
    /\ status' = 0
    /\ UNCHANGED <<scanVarsButMpc, doms, pths, inp, clsVars, prbVars, fileVars, hist>>

\* inside `with ThreadPoolExecutor(...)`: the exception leaves the block through
\* __exit__, which is shutdown(wait=True)
InterruptScan ==
    /\ mpc \in {"submit", "collect"}
    /\ intr' = TRUE
    /\ mpc' = "shutdown"
    /\ UNCHANGED <<scanVarsButMpc, doms, pths, status, inp, clsVars, prbVars, fileVars, hist>>

\* shutdown(wait=True) returns when the pool threads have run every work item;
\* the exception reaches lines 368-370
ShutdownDone ==
    /\ mpc = "shutdown"
    /\ queue = <<>>
    /\ running = {}
    /\ mpc' = "interrupted"
    /\ status' = 0
    /\ UNCHANGED <<scanVarsButMpc, doms, pths, intr, inp, clsVars, prbVars, fileVars, hist>>

\* what an interrupted `with open(output_file, 'a')` block has written when it closes
TextWritten(k) == txtFile \o SubSeq(TextLines(sv.results), 1, k)

\* what an interrupted `with open(json_file, 'w')` block has written when it closes
JsonWritten(k) == [exists |-> TRUE, text |-> SubSeq(JsonDump(sv.existing), 1, k)]

\* inside save_results, outside the try of lines 227-231: the with blocks close
\* the files, the exception reaches lines 368-370
InterruptSave ==
    /\ mpc = "saving"
    /\ sv.pc \in {"text", "load", "open", "write"}
    /\ intr' = TRUE
    /\ mpc' = "interrupted"
    /\ status' = 0
    /\ sv' = [sv EXCEPT !.pc = "raised"]
    /\ CASE sv.pc = "text" ->
              /\ \E k \in 0..Len(TextLines(sv.results)) : txtFile' = TextWritten(k)
              /\ UNCHANGED jsonFile
         [] sv.pc = "write" ->
              /\ \E k \in 0..Len(JsonDump(sv.existing)) : jsonFile' = JsonWritten(k)
              /\ UNCHANGED txtFile
         [] OTHER -> UNCHANGED <<txtFile, jsonFile>>
    /\ UNCHANGED <<scanVarsButMpc, doms, pths, inp, hist, clsVars, prbVars>>

\* inside the try of lines 227-231: the bare `except:` catches the interrupt as
\* it catches a parse error, existing is the empty list, and the call goes on
InterruptLoad ==
    /\ mpc = "saving"
    /\ sv.pc = "load"
    /\ jsonFile.exists
    /\ intr' = TRUE
    /\ LET nothing == [raised |-> FALSE, islist |-> TRUE, items |-> <<>>]
       IN  sv' = [sv EXCEPT !.pc = "open", !.existing = Extend(nothing, sv.results).items]
    /\ UNCHANGED <<txtFile, jsonFile, hist, scanVars, doms, pths, status, inp,
                   clsVars, prbVars>>

\* between the scan and the end of main, outside save_results: lines 335-365
InterruptMain ==
    /\ \/ mpc \in {"save", "summary"}
       \/ mpc = "saving" /\ sv.pc = "returned"
    /\ intr' = TRUE
    /\ mpc' = "interrupted"
    /\ status' = 0
    /\ UNCHANGED <<scanVarsButMpc, doms, pths, inp, clsVars, prbVars, fileVars, hist>>

-----------------------------------------------------------------------------
(* Specifications *)

\* a whole run of main, on the files an earlier run left
Init ==
    /\ InitScan
    /\ InitIdleClassifier
    /\ InitIdleProbe
    /\ txtFile = <<TextLine(OldEntry)>>
    /\ jsonFile = [exists |-> TRUE, text |-> JsonDump(<<OldEntry>>)]
    /\ sv = IdleSave
    /\ hist = <<>>

Next ==
    \/ Submit
    \/ Take
    \/ \E t \in running : Wake(t)
    \/ \E t \in running : RecvException(t)
    \/ \E t \in running : RecvResponse(t)
    \/ Collect
    \/ MainSave
    \/ SaveText
    \/ SaveLoad
    \/ SaveOpen
    \/ SaveWrite
    \/ MainSaved
    \/ MainReturn

Spec == Init /\ [][Next]_vars

\* a step of the pool thread that executes target t
WorkerStep(t) == t \in running /\ (Wake(t) \/ RecvException(t) \/ RecvResponse(t))

\* a step of the main thread
MainStep ==
    \/ Submit \/ Collect \/ MainSave \/ SaveText \/ SaveLoad \/ SaveOpen \/ SaveWrite
    \/ MainSaved \/ MainReturn

\* the same run when the main thread and the pool threads are scheduled fairly,
\* time.sleep returns, and requests.get ends within its timeout
\* the custom path list of a user who entered the root path only
RootOnly == <<Paths[1]>>

\* a run over every host on the root path
InitFair ==
    /\ InitScanOf(Hosts, RootOnly)
    /\ InitIdleClassifier
    /\ InitIdleProbe
    /\ txtFile = <<TextLine(OldEntry)>>
    /\ jsonFile = [exists |-> TRUE, text |-> JsonDump(<<OldEntry>>)]
    /\ sv = IdleSave
    /\ hist = <<>>

SpecFair ==
    /\ InitFair
    /\ [][Next]_vars
    /\ WF_vars(MainStep)
    /\ WF_vars(Take)
    /\ \A t \in 1..(Len(Hosts) * Len(RootOnly)) : WF_vars(WorkerStep(t))

\* detect_api on every response of the bounded input space
InitClassify ==
    /\ cIn \in [body : Bodies, headers : HeaderSets]
    /\ cOut = Pending
    /\ InitIdleProbe
    /\ InitIdleFiles
    /\ InitIdleScan

NextClassify == Classify

SpecClassify == InitClassify /\ [][NextClassify]_vars

\* one call of scan_domain_path against every behaviour of the network
InitProbe ==
    /\ InitIdleScan
    /\ \E d \in 1..Len(domains), p \in 1..Len(paths), dly \in Delays :
         pr = ProbeCall(domains[d], paths[p], dly)
    /\ plog = <<>>
    /\ InitIdleClassifier
    /\ InitIdleFiles

NextProbe == PWake \/ PException \/ PResponse

SpecProbe == InitProbe /\ [][NextProbe]_vars

\* save_results on the files earlier runs may have left
InitPersist ==
    /\ txtFile \in TxtFiles
    /\ jsonFile \in JsonFiles
    /\ sv = IdleSave
    /\ hist = <<>>
    /\ InitIdleClassifier
    /\ InitIdleProbe
    /\ InitIdleScan

NextPersist ==
    PersistCall \/ PersistRepeat \/ SaveText \/ SaveLoad \/ SaveOpen \/ SaveWrite

SpecPersist == InitPersist /\ [][NextPersist]_vars

\* a whole run of the program, from its first prompt to its exit, with a
\* KeyboardInterrupt at any point of the main thread but the shutdown of the pool
InitRun ==
    /\ InitInput
    /\ InitIdleClassifier
    /\ InitIdleProbe
    /\ txtFile = <<TextLine(OldEntry)>>
    /\ jsonFile = [exists |-> TRUE, text |-> JsonDump(<<OldEntry>>)]
    /\ sv = IdleSave
    /\ hist = <<>>

NextRun ==
    \/ ReadChoice \/ ReadFile \/ ReadDomain
    \/ ReadThreads \/ ReadDelay \/ ReadCustom \/ ReadPath
    \/ Next
    \/ InterruptInput \/ InterruptScan \/ InterruptSave \/ InterruptLoad \/ InterruptMain
    \/ ShutdownDone

SpecRun == InitRun /\ [][NextRun]_vars

-----------------------------------------------------------------------------
(* Claims about the classifier, checked under SpecClassify *)

Classified == cOut # Pending

ProtocolLabels ==
    { "REST/JSON", "GraphQL", "SOAP/XML", "API Documentation", "API Framework",
      "API Server" }

cBodyLower == LowerText(cIn.body)
cTypeLower == LowerText(HeaderGet(cIn.headers, "content-type", <<>>))
cServLower == LowerText(HeaderGet(cIn.headers, "server", <<>>))

\* the body carries the vendor's name and one of its challenge phrases, in any case
HasChallengeMarker ==
    /\ \E i \in 1..Len(cIn.body) : Lower(cIn.body[i]) = "cloudflare"
    /\ \E i \in 1..Len(cIn.body) :
         Lower(cIn.body[i]) \in {"challenge", "attention required"}

C6_ChallengeWins ==
    (Classified /\ HasChallengeMarker) => cOut[1] = FALSE

\* a challenge page that is also JSON by content type, by body, and names a server stack
C6_Witness ==
    /\ Classified
    /\ HasChallengeMarker
    /\ JsonContentType(cTypeLower)
    /\ JsonBody(cBodyLower)
    /\ IsApiServer(cServLower)
    /\ cOut[1] = FALSE

\* the conditions of the rules in the documented order
cRules ==
    << IsCloudflareBlock(cBodyLower),
       JsonContentType(cTypeLower) \/ JsonBody(cBodyLower),
       IsGraphQL(cBodyLower),
       IsXml(cIn.body, cBodyLower, cTypeLower),
       IsDocumentation(cBodyLower),
       IsFramework(cBodyLower),
       IsApiServer(cServLower) >>

\* the number of the first rule that holds, 8 when none does
cFirstRule ==
    LET r == cRules
    IN  IF \E i \in 1..7 : r[i]
          THEN CHOOSE i \in 1..7 : r[i] /\ \A j \in 1..(i - 1) : ~r[j]
          ELSE 8

cRuleLabel ==
    << "Cloudflare Block", "REST/JSON", "GraphQL", "SOAP/XML", "API Documentation",
       "API Framework", "API Server", NoLabel >>

\* C7: the result is that of the first rule that holds, in the order challenge,
\* REST/JSON, GraphQL, SOAP/XML, documentation, framework, server, else
\* (false, none); JSON content type beats a graphql mention, and "query" with
\* graphiql is GraphQL ahead of the XML and documentation rules.
C7_FirstRuleWins ==
    Classified =>
      LET first == cFirstRule
      IN  /\ cOut[1] = (first \in 2..7)
          /\ first \in 2..7 => cOut[2] = cRuleLabel[first]
          /\ first = 8 => cOut = <<FALSE, NoLabel>>
          /\ (JsonContentType(cTypeLower) /\ IsGraphQL(cBodyLower) /\ first # 1)
                => cOut = <<TRUE, "REST/JSON">>
          /\ ( /\ Contains("\"query\"", cBodyLower)
               /\ Contains("graphiql", cBodyLower)
               /\ first \notin {1, 2} )
                => cOut = <<TRUE, "GraphQL">>

\* "query" and graphiql in a page that also matches the XML and documentation rules
C7_Witness ==
    /\ Classified
    /\ Contains("\"query\"", cBodyLower)
    /\ Contains("graphiql", cBodyLower)
    /\ IsXml(cIn.body, cBodyLower, cTypeLower)
    /\ IsDocumentation(cBodyLower)
    /\ cOut = <<TRUE, "GraphQL">>

-----------------------------------------------------------------------------
(* Claims about one probe, checked under SpecProbe *)

\* the attempt received a response that detect_api judges API-positive
AttemptPositive(e) ==
    /\ "response" \in DOMAIN e
    /\ detect_api(e.response.text, e.response.headers)[1]

FirstPositive ==
    CHOOSE i \in 1..Len(plog) :
        AttemptPositive(plog[i]) /\ \A j \in 1..(i - 1) : ~AttemptPositive(plog[j])

\* C3: the schemes are requested in the order https, http; the http request is
\* issued only after the https attempt ended without a positive classification;
\* after a positive classification nothing more is requested and the probe has
\* returned.
C3_SchemeOrder ==
    /\ Len(pr.reqs) <= Len(Schemes)
    /\ \A i \in 1..Len(pr.reqs) : pr.reqs[i] = Url(Schemes[i], pr.domain, pr.path)
    /\ \A i \in 1..Len(plog) : plog[i].scheme = Schemes[i]
    /\ Len(plog) <= Len(pr.reqs)
    /\ Len(pr.reqs) <= Len(plog) + 1
    /\ Len(pr.reqs) = 2 => (Len(plog) >= 1 /\ ~AttemptPositive(plog[1]))
    /\ \A i \in 1..Len(plog) :
         AttemptPositive(plog[i]) => (Len(pr.reqs) = i /\ pr.pc = "returned")
    /\ pr.pc = "returned" =>
         (AttemptPositive(plog[Len(plog)]) \/ Len(plog) = Len(Schemes))

\* https ended without a positive classification, then http was requested and was positive
C3_Witness ==
    /\ pr.pc = "returned"
    /\ Len(plog) = 2
    /\ ~AttemptPositive(plog[1])
    /\ AttemptPositive(plog[2])
    /\ pr.reqs = <<Url("https", pr.domain, pr.path), Url("http", pr.domain, pr.path)>>

\* C4: the probe returns an outcome exactly when some attempt was classified
\* API-positive, and the outcome is that of the first such attempt; a TLS error
\* on https followed by a challenge page on http returns nothing.
C4_OutcomeIffPositive ==
    /\ pr.pc # "returned" => pr.ret = None
    /\ pr.pc = "returned" =>
         /\ (pr.ret # None) <=> (\E i \in 1..Len(plog) : AttemptPositive(plog[i]))
         /\ pr.ret # None =>
              LET e == plog[FirstPositive]
              IN  /\ pr.ret.scheme = Schemes[FirstPositive]
                  /\ pr.ret.url = Url(Schemes[FirstPositive], pr.domain, pr.path)
                  /\ pr.ret.is_api = TRUE
                  /\ pr.ret.api_type =
                       detect_api(e.response.text, e.response.headers)[2]
                  /\ pr.ret.status_code = e.response.status_code
         /\ plog = << [scheme |-> "https", exc |-> "SSLError"],
                      [scheme |-> "http", response |-> RespBlock] >>
              => pr.ret = None

\* the TLS error then challenge page scenario has run to its end
C4_Witness ==
    /\ pr.pc = "returned"
    /\ plog = << [scheme |-> "https", exc |-> "SSLError"],
                 [scheme |-> "http", response |-> RespBlock] >>
    /\ pr.ret = None

-----------------------------------------------------------------------------
(* Claims about the scan, checked under Spec *)

LoopLeft == mpc \in {"save", "saving", "summary", "exited"}

\* C1: every target is taken by a pool thread at most once and, when the loop
\* is left, exactly once; completed counts one per collected probe, never
\* exceeds N, and becomes N exactly once, whatever the probes returned.
C1_EachTargetOnce ==
    /\ \A t \in 1..N : fut[t].starts <= 1
    /\ \A t \in 1..N : fut[t].starts = 1 <=> fut[t].state \in {"running", "finished"}
    /\ \A i, j \in 1..Len(queue) : queue[i] = queue[j] => i = j
    /\ \A i \in 1..Len(queue) : fut[queue[i]].state = "pending"
    /\ completed = Cardinality(yielded)
    /\ completed <= N
    /\ hits = IF completed = N THEN 1 ELSE 0
    /\ mpc # "crashed"
    /\ LoopLeft => /\ \A t \in 1..N : fut[t].starts = 1
                   /\ completed = N
                   /\ hits = 1

\* a finished scan on two threads in which one probe returned an outcome and one nothing
C1_Witness ==
    /\ mpc = "summary"
    /\ threads >= 2
    /\ completed = N
    /\ \E t \in 1..N : fut[t].frame.ret = None
    /\ \E t \in 1..N : fut[t].frame.ret # None

\* C2: no exception of an attempt leaves scan_domain_path: after one the probe
\* has gone on to the next scheme, or, after the last scheme, has returned
\* nothing; main never sees an error, counts the target, and holds no outcome
\* for it.
C2_ErrorsAbsorbed ==
    /\ mpc # "crashed"
    /\ \A t \in 1..N :
         LET f == fut[t].frame
         IN  /\ f.pc # "raised"
             /\ \A i \in 1..Len(f.log) :
                  f.log[i] = "exc" =>
                    IF i < Len(Schemes)
                      THEN Len(f.reqs) = i + 1
                      ELSE f.pc = "returned" /\ f.ret = None
             /\ (t \in yielded /\ f.ret = None) =>
                  \A k \in 1..Len(results) :
                      <<results[k].domain, results[k].path>> # targets[t]
    /\ completed = Cardinality(yielded)

\* a target failed on both schemes, another was found, and the run reached its summary
C2_Witness ==
    /\ mpc = "summary"
    /\ \E t \in 1..N : fut[t].frame.log = <<"exc", "exc">> /\ t \in yielded
    /\ Len(results) >= 1
    /\ completed = N

-----------------------------------------------------------------------------
(* Claims about the result store, checked under SpecPersist *)

\* the outcome is a dict whose is_api is true
FlaggedApi(r) == "is_api" \in DOMAIN r /\ r.is_api = TRUE

ApiOnly(args) == SelectSeq(args, FlaggedApi)

Called == Len(hist) >= 1

LastCall == hist[Len(hist)]

\* what the JSON file held when the last call began
ParsedBefore ==
    IF LastCall.json.exists THEN JsonLoad(LastCall.json.text)
    ELSE [ok |-> TRUE, islist |-> TRUE, items |-> <<>>]

ParsedNow == JsonLoad(jsonFile.text)

EmptyJsonFiles ==
    { NoFile, [exists |-> TRUE, text |-> <<>>], [exists |-> TRUE, text |-> JsonDump(<<>>)] }

\* C8: when save_results has returned, the JSON file is a list holding the
\* entries it held before, in order, followed by the API-positive outcomes of
\* the call, in order, duplicates included; the same single outcome persisted
\* twice from an empty file leaves exactly two entries.
C8_AppendMerge ==
    (Called /\ sv.pc = "returned") =>
      /\ (ParsedBefore.ok /\ ParsedBefore.islist) =>
           /\ jsonFile.exists
           /\ ParsedNow = [ok |-> TRUE, islist |-> TRUE,
                           items |-> ParsedBefore.items \o ApiOnly(LastCall.args)]
      /\ ( /\ Len(hist) = 2
           /\ hist[1].json \in EmptyJsonFiles
           /\ Len(hist[1].args) = 1
           /\ FlaggedApi(hist[1].args[1])
           /\ hist[2].args = hist[1].args )
           => ParsedNow.items = <<hist[1].args[1], hist[1].args[1]>>

\* one outcome persisted twice, starting without a JSON file
C8_Witness ==
    /\ sv.pc = "returned"
    /\ Len(hist) = 2
    /\ hist[1].json = NoFile
    /\ hist[1].args = <<OutJson>>
    /\ hist[2].args = <<OutJson>>
    /\ Len(ParsedNow.items) = 2

\* C9: when the JSON file exists and json.load fails on it, save_results does
\* not raise, and once it has returned the file holds exactly the API-positive
\* outcomes of the call.
C9_MalformedTreatedEmpty ==
    (Called /\ LastCall.json.exists /\ ~ParsedBefore.ok) =>
      /\ sv.pc # "raised"
      /\ sv.pc = "returned" =>
           /\ jsonFile.exists
           /\ ParsedNow = [ok |-> TRUE, islist |-> TRUE,
                           items |-> ApiOnly(LastCall.args)]

\* a file cut short in the middle of a list was replaced by the outcomes of the call
C9_Witness ==
    /\ Called
    /\ sv.pc = "returned"
    /\ LastCall.json = [exists |-> TRUE, text |-> <<LB, OldEntry, Comma>>]
    /\ LastCall.args = <<OutJson, OutBare>>
    /\ ParsedNow.items = <<OutJson, OutBare>>

\* the entries the JSON file held before the call, as the call sees them
KeptItems == IF ParsedBefore.ok /\ ParsedBefore.islist THEN ParsedBefore.items ELSE <<>>

\* C10: the lines a call adds to the text file are, in order, those of the
\* outcomes of its argument whose is_api is true, one each, and after its
\* return the entries added to the JSON file are exactly those outcomes; None
\* and negative outcomes add nothing.
C10_OnlyApiPersisted ==
    (Called /\ sv.pc \in {"load", "open", "write", "returned", "raised"}) =>
      LET api  == ApiOnly(LastCall.args)
          base == Len(LastCall.txt)
      IN  /\ Len(txtFile) = base + Len(api)
          /\ SubSeq(txtFile, 1, base) = LastCall.txt
          /\ \A i \in 1..Len(api) :
               /\ txtFile[base + i].url = api[i].url
               /\ txtFile[base + i].api_type = api[i].api_type
          /\ sv.pc = "returned" =>
               /\ Len(ParsedNow.items) = Len(KeptItems) + Len(api)
               /\ \A i \in 1..Len(api) : ParsedNow.items[Len(KeptItems) + i] = api[i]

\* a call given a negative and a positive outcome has returned
C10_Witness ==
    /\ Called
    /\ sv.pc = "returned"
    /\ LastCall.args = <<OutNegative, OutJson>>
    /\ Len(txtFile) = Len(LastCall.txt) + 1
    /\ Len(ParsedNow.items) = Len(KeptItems) + 1

-----------------------------------------------------------------------------
(* Claims about the pool and the collection loop, checked under Spec *)

\* the targets whose probe a pool thread is executing
InProgress == { t \in 1..N : fut[t].state = "running" }

\* the targets whose probe returned an outcome
WithOutcome == { t \in 1..N : fut[t].state = "finished" /\ fut[t].frame.ret # None }

FilesLeftByEarlierRuns ==
    /\ txtFile = <<TextLine(OldEntry)>>
    /\ jsonFile = [exists |-> TRUE, text |-> JsonDump(<<OldEntry>>)]

\* C16: never more probes in progress than the configured number of worker
\* threads, however many targets are queued.
C16_WorkerBound ==
    LET busy == InProgress
    IN  /\ running = busy
        /\ Cardinality(busy) <= threads
        /\ \A t \in busy : fut[t].frame.pc \in {"sleep", "wait"}

\* every worker is busy while a target still waits in the queue
C16_Witness ==
    /\ Cardinality(InProgress) = threads
    /\ queue # <<>>
    /\ \A t \in InProgress : fut[t].frame.pc = "wait"

\* C17: results holds one entry per collected probe that returned an outcome,
\* and no other; when the scan has finished that is every probe that returned
\* an outcome, so the count reported in the summary is their number.
C17_ResultsAreOutcomes ==
    LET collected == { t \in yielded : fut[t].frame.ret # None }
    IN  /\ Len(results) = Cardinality(collected)
        /\ \A i \in 1..Len(results) :
             \E t \in collected : results[i] = fut[t].frame.ret
        /\ \A t \in collected :
             \E i \in 1..Len(results) : results[i] = fut[t].frame.ret
        /\ LoopLeft => collected = WithOutcome

\* two probes returned outcomes and the later target was collected first
C17_Witness ==
    /\ mpc = "summary"
    /\ Len(results) = 2
    /\ results[1] = fut[2].frame.ret
    /\ results[2] = fut[1].frame.ret

-----------------------------------------------------------------------------
(* Claim about the delay, checked under SpecProbe *)

\* C18: with a delay above zero the probe sleeps once, before its first
\* request, and not again before the http attempt; with a delay of zero it
\* never sleeps.
C18_DelayOnce ==
    /\ pr.slept <= 1
    /\ pr.dly = 0 => pr.slept = 0 /\ pr.pc # "sleep"
    /\ pr.dly > 0 => /\ pr.pc = "sleep" <=> pr.reqs = <<>>
                     /\ pr.slept = IF pr.reqs = <<>> THEN 0 ELSE 1

\* a delayed probe has gone through both schemes
C18_Witness ==
    /\ pr.dly > 0
    /\ pr.pc = "returned"
    /\ Len(pr.reqs) = 2
    /\ pr.slept = 1

-----------------------------------------------------------------------------
(* Claim about termination, checked under SpecFair *)

ScanOver ==
    /\ \A t \in 1..N : fut[t].state = "finished"
    /\ queue = <<>>
    /\ running = {}
    /\ completed = N

\* C19: under fair scheduling, with every sleep and every request ending, the
\* scan ends: every target is completed, completed equals the number of
\* targets, no pool thread is left waiting, and main reaches the summary.
C19_Terminates == <>(ScanOver /\ mpc = "summary")

\* a delayed scan on one thread reached the summary after a probe failed on both schemes
C19_Witness ==
    /\ ScanOver
    /\ mpc = "summary"
    /\ threads = 1
    /\ delay > 0
    /\ \E t \in 1..N : fut[t].frame.log = <<"exc", "exc">>

-----------------------------------------------------------------------------
(* Claim about the two files of one call, checked under SpecPersist *)

\* the entries a reader of the JSON file finds in it
EntriesNow == IF ParsedNow.ok /\ ParsedNow.islist THEN ParsedNow.items ELSE <<>>

\* C20: when save_results has returned or raised, the number of lines it added
\* to the text file equals the number of entries it added to the JSON file.
C20_FilesTogether ==
    (Called /\ sv.pc \in {"returned", "raised"}) =>
      Len(txtFile) - Len(LastCall.txt) = Len(EntriesNow) - Len(KeptItems)

-----------------------------------------------------------------------------
(* Claims about a whole run, checked under SpecRun *)

Exited == status # -1

\* the JSON file as the earlier runs left it, and as a completed merge leaves it
PriorJson  == [exists |-> TRUE, text |-> JsonDump(<<OldEntry>>)]
MergedJson == [exists |-> TRUE, text |-> JsonDump(<<OldEntry>> \o SelectApi(results))]

\* C11: whenever the process has exited, interrupted or not, the JSON file
\* holds its complete prior content or the complete merged list, and every
\* line the run added to the text file has its entry in the JSON file.
C11_FilesIntact ==
    Exited =>
      /\ jsonFile \in {PriorJson, MergedJson}
      /\ \A i \in 2..Len(txtFile) :
           \E j \in 1..Len(EntriesNow) : EntriesNow[j].url = txtFile[i].url

\* C12: once the interrupt has arrived, no pool thread starts a target.
C12_NoStartAfterInterrupt ==
    [][intr => \A t \in DOMAIN fut : fut'[t].starts = fut[t].starts]_vars

\* the run has got past the reading of the domains
DomainsRead == mpc \notin {"choice", "file", "domain", "nodomains", "cancelled"}

\* C13: the exit status is non-zero when no targets are available or the
\* input was aborted, and zero when main returned after the scan.
C13_ExitStatus ==
    /\ mpc \in {"nodomains", "cancelled"} => status \notin {-1, 0}
    /\ mpc = "exited" => status = 0
    /\ DomainsRead => doms # <<>>

\* C13 as amended: the exit status is 1 when no targets are available, and the
\* run goes no further; it is 0 when the input was aborted by a keyboard
\* interrupt, and 0 when main returned after the scan.
C13_ExitStatusAmended ==
    /\ Exited <=> mpc \in {"nodomains", "cancelled", "interrupted", "exited", "crashed"}
    /\ mpc = "nodomains" => status = 1 /\ doms = <<>>
    /\ mpc = "cancelled" => status = 0
    /\ mpc = "exited" => status = 0
    /\ DomainsRead => doms # <<>>

\* the input was aborted at a later prompt, a domain already entered
C13_Witness ==
    /\ mpc = "cancelled"
    /\ status = 0
    /\ doms # <<>>
    /\ Len(inp.tty) = 1

HostNames == { "api.example.com", "example.org" }

\* a host name and nothing else
IsBareHost(domain) == Len(domain) = 1 /\ domain[1] \in HostNames

\* C14: every domain main hands to the pool is a bare host name, every path
\* begins with '/', and so does every URL a probe requests.
C14_BareHosts ==
    (DomainsRead /\ mpc \notin AtPrompt) =>
      /\ \A i \in 1..Len(doms) : IsBareHost(doms[i])
      /\ \A j \in 1..Len(pths) : StartsWith(pths[j], <<"/">>)
      /\ \A t \in DOMAIN fut : \A k \in 1..Len(fut[t].frame.reqs) :
           LET url == fut[t].frame.reqs[k]
           IN  IsBareHost(url[3]) /\ StartsWith(url[4], <<"/">>)

\* C15: save_results is entered at most once in a run, interrupted or not,
\* and only when every probe has ended and was collected; while any probe is
\* pending or in flight both files are as the earlier runs left them, and the
\* JSON file is rewritten at most once.
C15_PersistOnceAfterScan ==
    /\ Len(hist) <= 1
    /\ (sv.pc # "idle" \/ hist # <<>> \/ ~FilesLeftByEarlierRuns) =>
         /\ \A t \in 1..N : fut[t].state = "finished"
         /\ yielded = 1..N
         /\ queue = <<>> /\ running = {}
         /\ Len(hist) = 1
         /\ hist[1].args = results
    /\ (sv.pc \in {"idle", "text", "load", "open"} /\ hist # <<>>) =>
         jsonFile = hist[1].json

\* both files were written after an uninterrupted scan of two outcomes
C15_Witness ==
    /\ mpc = "summary"
    /\ ~intr
    /\ Len(hist) = 1
    /\ sv.pc = "returned"
    /\ Len(txtFile) = 3
    /\ Len(JsonLoad(jsonFile.text).items) = 3

====
